---- MODULE Spec2Model ----
(***************************************************************************)
(* Model of the ENSDF card-image parser of src/ensdf/core.py:              *)
(* Dataset._parse_dataset (line classification and record grouping),       *)
(* Record.load_prop (the property grammar of continuation lines),          *)
(* the record constructors and GammaRecord._determine_dest_level.          *)
(*                                                                         *)
(* A Python str is a sequence of one-character strings.  Python's 0-based  *)
(* s[k] is At(s, k) and s[a:b] is Slice(s, a, b).  None is NoLevel for a      *)
(* reference to a Level, NoneVal for a number, "None" for an offset tag.    *)
(* A Level is referred to by its position in self.levels, a decay record   *)
(* by its position in self.records.                                        *)
(***************************************************************************)
EXTENDS Integers, Sequences, FiniteSets, TLC

\* Number of elements of self.raw (lines after the header line) of the inputs explored.
MaxLines == 4

\* Columns of a card image.
LineWidth == 80

\* physical_constants["atomic mass constant energy equivalent in MeV"][0] is
\* 931.494... MeV; in keV and rounded, so that 0.001 * Eg / (mass * amu)
\* is Eg / (mass * AmuKeV) for Eg in keV.
AmuKeV == 931494

NoneVal == 0 - 1

\* level = None: no position of self.levels
NoLevel == 0

\* No destination estimate was computed
NoEstimate == [whole |-> 0, rem |-> 0, den |-> 0]

(***************************************************************************)
(* Python str operations                                                   *)
(***************************************************************************)
Min2(a, b) == IF a < b THEN a ELSE b

\* s[k], defined when k < len(s) (IndexError otherwise: see Short)
At(s, k) == s[k + 1]

\* s[k] raises IndexError
Short(s, k) == Len(s) <= k

\* s[a:b] for 0 <= a <= b
Slice(s, a, b) == SubSeq(s, a + 1, Min2(b, Len(s)))

\* s[a:]
SliceFrom(s, a) == SubSeq(s, a + 1, Len(s))

\* c in s, for a one-character c
Has(s, c) == \E i \in 1..Len(s) : s[i] = c

\* s.find(c) + 1 (0 when c is not in s)
FirstIndex(s, c) == IF Has(s, c) THEN CHOOSE i \in 1..Len(s) : s[i] = c /\ \A j \in 1..(i - 1) : s[j] # c ELSE 0

\* sub in s
Contains(s, sub) == \E i \in 0..(Len(s) - Len(sub)) : SubSeq(s, i + 1, i + Len(sub)) = sub

\* s.strip(); the only whitespace of the inputs is the blank
Strip(s) ==
  IF \A i \in 1..Len(s) : s[i] = " " THEN << >>
  ELSE LET a == CHOOSE i \in 1..Len(s) : s[i] # " " /\ \A j \in 1..(i - 1) : s[j] = " "
           b == CHOOSE i \in 1..Len(s) : s[i] # " " /\ \A j \in (i + 1)..Len(s) : s[j] = " "
       IN SubSeq(s, a, b)

\* s.split(sep, maxsplit=n) for a one-character sep
RECURSIVE SplitMax(_, _, _)
SplitMax(s, sep, n) ==
  LET i == FirstIndex(s, sep)
  IN IF n = 0 \/ i = 0 THEN << s >>
     ELSE << SubSeq(s, 1, i - 1) >> \o SplitMax(SubSeq(s, i + 1, Len(s)), sep, n - 1)

\* s.split(sep)
Split(s, sep) == SplitMax(s, sep, Len(s))

LowerLetters == << "a", "b", "c", "d", "e", "f", "g", "h", "i", "j", "k", "l", "m", "n", "o", "p", "q", "r", "s", "t", "u", "v", "w", "x", "y", "z" >>

UpperLetters == << "A", "B", "C", "D", "E", "F", "G", "H", "I", "J", "K", "L", "M", "N", "O", "P", "Q", "R", "S", "T", "U", "V", "W", "X", "Y", "Z" >>

\* c.upper() and c.lower() for a one-character c
Upper(c) == IF \E i \in 1..26 : LowerLetters[i] = c THEN UpperLetters[CHOOSE i \in 1..26 : LowerLetters[i] = c] ELSE c

Lower(c) == IF \E i \in 1..26 : UpperLetters[i] = c THEN LowerLetters[CHOOSE i \in 1..26 : UpperLetters[i] = c] ELSE c

\* s.lower()
LowerStr(s) == [i \in 1..Len(s) |-> Lower(s[i])]

\* d[k] = v on a dict d (a function on its keys)
DictSet(d, k, v) == [x \in DOMAIN d \cup {k} |-> IF x = k THEN v ELSE d[x]]

EmptyDict == [x \in {} |-> << >>]

(***************************************************************************)
(* util.Quantity and util.az_from_nucid (not part of src/): modelled       *)
(* from the specification, sections 4.1 and 4.5.                            *)
(***************************************************************************)
Digits == << "0", "1", "2", "3", "4", "5", "6", "7", "8", "9" >>

IsDigit(c) == \E i \in 1..10 : Digits[i] = c

DigitVal(c) == (CHOOSE i \in 1..10 : Digits[i] = c) - 1

IsLetter(c) == \E i \in 1..26 : UpperLetters[i] = c \/ LowerLetters[i] = c

AllDigits(s) == Len(s) > 0 /\ \A i \in 1..Len(s) : IsDigit(s[i])

\* int(s) for a string of decimal digits
RECURSIVE ParseNat(_)
ParseNat(s) == IF s = << >> THEN 0 ELSE 10 * ParseNat(SubSeq(s, 1, Len(s) - 1)) + DigitVal(s[Len(s)])

QualifierCodes == { << "G", "T" >>, << "L", "T" >>, << "G", "E" >>, << "L", "E" >>, << "A", "P" >>, << "C", "A" >>, << "S", "Y" >> }

\* The value string without a leading relational symbol or a trailing coded qualifier
QuantityMagnitude(v) ==
  IF Len(v) >= 1 /\ v[1] \in {"<", ">"} THEN Strip(SubSeq(v, 2, Len(v)))
  ELSE IF Len(v) >= 3 /\ SubSeq(v, Len(v) - 1, Len(v)) \in QualifierCodes /\ v[Len(v) - 2] = " "
       THEN Strip(SubSeq(v, 1, Len(v) - 3))
       ELSE v

\* The magnitude num with the offset tag found: ok is FALSE when num is not
\* numeric (the parse failure)
NumericQuantity(num, offset) ==
  IF AllDigits(num) THEN [val |-> ParseNat(num), offset |-> offset, ok |-> TRUE]
  ELSE [val |-> NoneVal, offset |-> "None", ok |-> FALSE]

\* A magnitude ending in "+" and a letter carries that letter as offset tag
OffsetQuantity(m) ==
  IF Len(m) >= 3 /\ IsLetter(m[Len(m)]) /\ m[Len(m) - 1] = "+"
  THEN NumericQuantity(SubSeq(m, 1, Len(m) - 2), m[Len(m)])
  ELSE NumericQuantity(m, "None")

StrippedQuantity(v) ==
  IF v = << >> THEN [val |-> NoneVal, offset |-> "None", ok |-> TRUE]
  ELSE OffsetQuantity(QuantityMagnitude(v))

\* Quantity(value): val (NoneVal when absent), offset tag ("None" when absent)
Quantity(value) == StrippedQuantity(Strip(value))

\* az_from_nucid(nucid)[0]: the mass number, the leading digits of the nuclide id
RECURSIVE LeadingDigits(_)
LeadingDigits(s) == IF s # << >> /\ IsDigit(s[1]) THEN << s[1] >> \o LeadingDigits(Tail(s)) ELSE << >>

az_from_nucid(nucid) == ParseNat(LeadingDigits(nucid))

(***************************************************************************)
(* Record.load_prop                                                        *)
(***************************************************************************)
Abbrs == << << "G", "T" >>, << "L", "T" >>, << "G", "E" >>, << "L", "E" >>, << "A", "P" >>, << "C", "A" >>, << "S", "Y" >> >>

\* f" {abbr} " in entry, for some abbr of the list
HasAbbr(entry) == \E i \in 1..Len(Abbrs) : Contains(entry, << " " >> \o Abbrs[i] \o << " " >>)

\* for symb in ["<", ">"]: the first of the two that the entry contains
RelSymb(entry) == IF Has(entry, "<") THEN "<" ELSE IF Has(entry, ">") THEN ">" ELSE "None"

\* quant, value = entry.split("=", maxsplit=1)
\* self.prop[quant.strip()] = value.strip()
StoreAssigned(prop, kv) == [prop |-> DictSet(prop, Strip(kv[1]), Strip(kv[2])), flow |-> "continue"]

\* quant, value = entry.split(symb, maxsplit=1)
\* self.prop[quant.strip()] = symb + value.strip(); return
StoreRelational(prop, symb, kv) == [prop |-> DictSet(prop, Strip(kv[1]), << symb >> \o Strip(kv[2])), flow |-> "return"]

\* "quant, quant, value = entry.split(" ", maxsplit=2)": quant is bound twice and
\* keeps the second token; value is the third
AbbrQuant(parts) == parts[2]

AbbrValue(parts) == parts[3]

\* self.prop[quant.strip()] = value.strip() + f" {quant}"; return
\* (the unpacking raises ValueError unless there are three tokens)
StoreAbbreviated(prop, parts) ==
  IF Len(parts) # 3 THEN [prop |-> prop, flow |-> "raise"]
  ELSE [prop |-> DictSet(prop, Strip(AbbrQuant(parts)), Strip(AbbrValue(parts)) \o << " " >> \o AbbrQuant(parts)), flow |-> "return"]

\* One stripped entry of the inner loop: the dict after it and how the loop
\* goes on ("continue", "return" or "raise")
LoadStripped(prop, entry) ==
  IF entry = << >> THEN [prop |-> prop, flow |-> "continue"]
  ELSE IF Has(entry, "=") THEN StoreAssigned(prop, SplitMax(entry, "=", 1))
  ELSE IF RelSymb(entry) # "None" THEN StoreRelational(prop, RelSymb(entry), SplitMax(entry, RelSymb(entry), 1))
  ELSE IF HasAbbr(entry) THEN StoreAbbreviated(prop, SplitMax(entry, " ", 2))
  ELSE IF entry[Len(entry)] = "?" THEN [prop |-> DictSet(prop, SubSeq(entry, 1, Len(entry) - 1), << "?" >>), flow |-> "return"]
  ELSE [prop |-> prop, flow |-> "raise"]

\* entry = entry.strip() and the body of the inner loop
LoadEntry(prop, raw_entry) == LoadStripped(prop, Strip(raw_entry))

\* for entry in line[9:].split("$")
RECURSIVE LoadEntries(_, _)
\* Mutant of AfterEntry: the scan goes on after an entry that returned
AfterEntry_Continue(r, rest) == IF r.flow # "raise" THEN LoadEntries(r.prop, rest) ELSE r

AfterEntry(r, rest) == IF r.flow = "continue" THEN LoadEntries(r.prop, rest) ELSE r

LoadEntries(prop, entries) ==
  IF entries = << >> THEN [prop |-> prop, flow |-> "continue"]
  ELSE AfterEntry(LoadEntry(prop, Head(entries)), Tail(entries))

\* load_prop(lines): the dict after the call; flow "raise" is the ValueError,
\* anything else a normal return
RECURSIVE load_prop(_, _)
AfterLine(r, rest) == IF r.flow = "continue" THEN load_prop(r.prop, rest) ELSE r

load_prop(prop, lines) ==
  IF lines = << >> THEN [prop |-> prop, flow |-> "return"]
  ELSE AfterLine(LoadEntries(prop, Split(SliceFrom(Head(lines), 9), "$")), Tail(lines))

(***************************************************************************)
(* The record classes.  An exception is the name of its class, "none"      *)
(* when the call returned.                                                 *)
(***************************************************************************)
\* The fixed-column fields of the record's first line, << key, a, b >> for
\* prop[key] = record[0][a:b].strip()  (record[0][a] is the slice a:a+1 of a
\* line that is long enough)
LevelFields == << << << "E" >>, 9, 19 >>, << << "D", "E" >>, 19, 21 >>, << << "J" >>, 21, 39 >>, << << "T" >>, 39, 49 >>,
                  << << "D", "T" >>, 49, 55 >>, << << "L" >>, 55, 64 >>, << << "S" >>, 64, 74 >>, << << "D", "S" >>, 74, 76 >>,
                  << << "C" >>, 76, 77 >>, << << "M", "S" >>, 77, 79 >>, << << "Q" >>, 79, 80 >> >>

BetaFields == << << << "E" >>, 9, 19 >>, << << "D", "E" >>, 19, 21 >>, << << "I", "B" >>, 21, 29 >>, << << "D", "I", "B" >>, 29, 31 >>,
                 << << "L", "O", "G", "F", "T" >>, 41, 49 >>, << << "D", "F", "T" >>, 49, 55 >>, << << "C" >>, 76, 77 >>,
                 << << "U", "N" >>, 77, 79 >>, << << "Q" >>, 79, 80 >> >>

ECFields == << << << "E" >>, 9, 19 >>, << << "D", "E" >>, 19, 21 >>, << << "I", "B" >>, 21, 29 >>, << << "D", "I", "B" >>, 29, 31 >>,
               << << "I", "E" >>, 31, 39 >>, << << "D", "I", "E" >>, 39, 41 >>, << << "L", "O", "G", "F", "T" >>, 41, 49 >>,
               << << "D", "F", "T" >>, 49, 55 >>, << << "T", "I" >>, 64, 74 >>, << << "D", "T", "I" >>, 74, 76 >>,
               << << "C" >>, 76, 77 >>, << << "U", "N" >>, 77, 79 >>, << << "Q" >>, 79, 80 >> >>

AlphaFields == << << << "E" >>, 9, 19 >>, << << "D", "E" >>, 19, 21 >>, << << "I", "A" >>, 21, 29 >>, << << "D", "I", "A" >>, 29, 31 >>,
                  << << "H", "F" >>, 31, 39 >>, << << "D", "H", "F" >>, 39, 41 >>, << << "C" >>, 76, 77 >>, << << "Q" >>, 79, 80 >> >>

ParticleFields == << << << "E" >>, 9, 19 >>, << << "D", "E" >>, 19, 21 >>, << << "I", "P" >>, 21, 29 >>, << << "D", "I", "P" >>, 29, 31 >>,
                     << << "E", "I" >>, 31, 39 >>, << << "T" >>, 39, 49 >>, << << "D", "T" >>, 49, 55 >>, << << "L" >>, 55, 64 >>,
                     << << "C" >>, 76, 77 >>, << << "C", "O", "I", "N" >>, 78, 79 >>, << << "Q" >>, 79, 80 >> >>

GammaFields == << << << "E" >>, 9, 19 >>, << << "D", "E" >>, 19, 21 >>, << << "R", "I" >>, 21, 29 >>, << << "D", "R", "I" >>, 29, 31 >>,
                  << << "M" >>, 31, 41 >>, << << "M", "R" >>, 41, 49 >>, << << "D", "M", "R" >>, 49, 55 >>, << << "C", "C" >>, 55, 62 >>,
                  << << "D", "C", "C" >>, 62, 64 >>, << << "T", "I" >>, 64, 74 >>, << << "D", "T", "I" >>, 74, 76 >>,
                  << << "C" >>, 76, 77 >>, << << "C", "O", "I", "N" >>, 78, 79 >>, << << "Q" >>, 79, 80 >> >>

\* self.prop[key] = record[0][a:b].strip() for every field of the table
RECURSIVE FixedProps(_, _, _)
FixedProps(prop, line, fields) ==
  IF fields = << >> THEN prop
  ELSE FixedProps(DictSet(prop, Head(fields)[1], Strip(Slice(line, Head(fields)[2], Head(fields)[3]))), line, Tail(fields))

\* GeneralCommentRecord(dataset, comment)
GeneralCommentRecord(comment) == [comment |-> comment]

\* Record.__init__: prop = {}, comments = one GeneralCommentRecord per block, xref
RecordInit(comments, xref) ==
  [prop |-> EmptyDict, comments |-> [i \in 1..Len(comments) |-> GeneralCommentRecord(comments[i])], xref |-> xref]

\* load_prop returned or raised: the record and the exception
Loaded(base, lp) == [rec |-> [base EXCEPT !.prop = lp.prop], exc |-> IF lp.flow = "raise" THEN "ValueError" ELSE "none"]

\* The part every constructor of a grouped record shares: Record.__init__, the
\* fixed fields of record[0] (after the entries of first, which ParticleRecord
\* sets before them), load_prop(record[1:]).  record[0][79] of a line shorter
\* than 80 columns raises IndexError.
LoadRecord(record, comments, xref, first, fields) ==
  IF Short(record[1], 79) THEN [rec |-> RecordInit(comments, xref), exc |-> "IndexError"]
  ELSE Loaded(RecordInit(comments, xref), load_prop(FixedProps(first, record[1], fields), Tail(record)))

\* The Level object of a record whose quantities parsed
LevelObject(rec, energy, half_life, spec_strength) ==
  IF ~energy.ok \/ ~half_life.ok \/ ~spec_strength.ok THEN [rec |-> rec, exc |-> "ValueError"]
  ELSE [rec |-> [type |-> "Level", prop |-> rec.prop, comments |-> rec.comments, xref |-> rec.xref,
                 decays |-> << >>, populating |-> << >>, energy |-> energy,
                 ang_mom |-> rec.prop[<< "J" >>], half_life |-> half_life,
                 questionable |-> (rec.prop[<< "Q" >>] = << "?" >>), expected |-> (rec.prop[<< "Q" >>] = << "S" >>),
                 metastable |-> (rec.prop[<< "M", "S" >>] # << >> /\ rec.prop[<< "M", "S" >>][1] = "M"),
                 spec_strength |-> spec_strength],
        exc |-> "none"]

LevelLoaded(r) ==
  IF r.exc # "none" THEN r
  ELSE LevelObject(r.rec, Quantity(r.rec.prop[<< "E" >>]), Quantity(r.rec.prop[<< "T" >>]), Quantity(r.rec.prop[<< "S" >>]))

\* LevelRecord(dataset, record, comments, xref)
LevelRecord(record, comments, xref) == LevelLoaded(LoadRecord(record, comments, xref, EmptyDict, LevelFields))

BetaObject(rec, energy, dest_level) ==
  IF ~energy.ok THEN [rec |-> rec, exc |-> "ValueError"]
  ELSE [rec |-> [type |-> "Beta", prop |-> rec.prop, comments |-> rec.comments, xref |-> rec.xref,
                 dest_level |-> dest_level, energy |-> energy,
                 questionable |-> (rec.prop[<< "Q" >>] = << "?" >>), expected |-> (rec.prop[<< "Q" >>] = << "S" >>)],
        exc |-> "none"]

BetaLoaded(r, dest_level) == IF r.exc # "none" THEN r ELSE BetaObject(r.rec, Quantity(r.rec.prop[<< "E" >>]), dest_level)

\* BetaRecord(dataset, record, comments, xref, dest_level)
BetaRecord(record, comments, xref, dest_level) == BetaLoaded(LoadRecord(record, comments, xref, EmptyDict, BetaFields), dest_level)

PlainLoaded(type, r, dest_level) ==
  IF r.exc # "none" THEN r
  ELSE [rec |-> [type |-> type, prop |-> r.rec.prop, comments |-> r.rec.comments, xref |-> r.rec.xref, dest_level |-> dest_level],
        exc |-> "none"]

\* ECRecord, AlphaRecord: the fields and load_prop only
PlainDecayRecord(type, fields, record, comments, xref, dest_level) ==
  PlainLoaded(type, LoadRecord(record, comments, xref, EmptyDict, fields), dest_level)

ParticleLoaded(r, dest_level) ==
  IF r.exc # "none" THEN r
  ELSE [rec |-> [type |-> "Particle", prop |-> r.rec.prop, comments |-> r.rec.comments, xref |-> r.rec.xref,
                 dest_level |-> dest_level,
                 prompt_emission |-> (r.rec.prop[<< "D" >>] = << " " >>),
                 delayed_emission |-> (r.rec.prop[<< "D" >>] = << "D" >>)],
        exc |-> "none"]

\* self.prop["D"] = record[0][7]; self.prop["Particle"] = record[0][8]
ParticleFirst(line) ==
  IF Short(line, 8) THEN EmptyDict
  ELSE DictSet(DictSet(EmptyDict, << "D" >>, << At(line, 7) >>), << "P", "a", "r", "t", "i", "c", "l", "e" >>, << At(line, 8) >>)

\* ParticleRecord(dataset, record, comments, xref, dest_level)
ParticleRecord(record, comments, xref, dest_level) ==
  ParticleLoaded(LoadRecord(record, comments, xref, ParticleFirst(record[1]), ParticleFields), dest_level)

(***************************************************************************)
(* GammaRecord and GammaRecord._determine_dest_level                       *)
(*                                                                         *)
(* A destination estimate is the number whole - rem / den (keV) with       *)
(* integers whole and 0 <= rem < den: the float arithmetic of the source   *)
(* is exact rational arithmetic here, in a form that stays within 32 bits. *)
(***************************************************************************)
\* dest_energy = Quantity(self.prop["FL"]).val
DestEnergyFL(fl_val) == [whole |-> fl_val, rem |-> 0, den |-> 1]

\* Mutant of DestEnergyRecoil: the factor 2 of the recoil term is dropped
DestEnergyRecoil_NoFactor(orig_val, energy_gamma, mass) ==
  [whole |-> orig_val - energy_gamma - ((energy_gamma * energy_gamma) \div (mass * AmuKeV)),
   rem |-> (energy_gamma * energy_gamma) % (mass * AmuKeV), den |-> mass * AmuKeV]

\* energy_i = energy_gamma * (1 + 2 * (.001 * energy_gamma) / (mass * amu))
\*          = energy_gamma + 2 * energy_gamma^2 / (mass * AmuKeV)
\* dest_energy = self.orig_level.energy.val - energy_i
DestEnergyRecoil(orig_val, energy_gamma, mass) ==
  LET den == mass * AmuKeV
      recoil == 2 * energy_gamma * energy_gamma
  IN [whole |-> orig_val - energy_gamma - (recoil \div den), rem |-> recoil % den, den |-> den]

\* The offset tag the candidate levels are filtered by: self.energy.offset
FilterOffset(g) == g.energy.offset

\* Mutant of Candidates: the originating level is left out of the candidates
Candidates_NotOrigin(levels, g) == { i \in 1..Len(levels) : levels[i].energy.offset = g.energy.offset /\ i # g.orig_level }

\* [l for l in self.dataset.levels if l.energy.offset == self.energy.offset],
\* as the positions in self.dataset.levels, in order
Candidates(levels, g) == { i \in 1..Len(levels) : levels[i].energy.offset = FilterOffset(g) }

\* key=lambda x: abs(x.energy.val - dest_energy): the pair << n, f >> stands
\* for n + f / dest.den with 0 <= f < dest.den
Distance(lvl, dest) ==
  LET k == lvl.energy.val - dest.whole
  IN IF k >= 0 THEN << k, dest.rem >>
     ELSE IF dest.rem = 0 THEN << 0 - k, 0 >>
     ELSE << 0 - k - 1, dest.den - dest.rem >>

\* d1 < d2 for two keys
Closer(d1, d2) == d1[1] < d2[1] \/ (d1[1] = d2[1] /\ d1[2] < d2[2])

\* Mutant of NearestLevel: max() in place of min()
NearestLevel_Max(levels, cands, dest) ==
  CHOOSE i \in cands : /\ \A j \in cands : ~Closer(Distance(levels[i], dest), Distance(levels[j], dest))
                       /\ \A j \in cands : j < i => Closer(Distance(levels[j], dest), Distance(levels[i], dest))

\* min(candidates, key=...): the first of the candidates with the least key
NearestLevel(levels, cands, dest) ==
  CHOOSE i \in cands : /\ \A j \in cands : ~Closer(Distance(levels[j], dest), Distance(levels[i], dest))
                       /\ \A j \in cands : j < i => Closer(Distance(levels[i], dest), Distance(levels[j], dest))

\* dest_energy = Quantity(self.prop["FL"]).val
EstimateFL(q) ==
  IF ~q.ok THEN [kind |-> "ValueError"]
  ELSE [kind |-> "estimate", dest |-> DestEnergyFL(q.val), none |-> (q.val = NoneVal)]

\* The elif branch: None in the arithmetic is a TypeError, mass 0 a ZeroDivisionError
EstimateRecoil(orig, g, mass) ==
  IF g.energy.val = NoneVal THEN [kind |-> "TypeError"]
  ELSE IF mass = 0 THEN [kind |-> "ZeroDivisionError"]
  ELSE IF orig.energy.val = NoneVal THEN [kind |-> "TypeError"]
  ELSE [kind |-> "estimate", dest |-> DestEnergyRecoil(orig.energy.val, g.energy.val, mass), none |-> FALSE]

\* Mutant of DestEstimate: FL == "?" is not tested and falls through to the
\* originating level
DestEstimate_NoQuestionTest(levels, g, nucid) ==
  IF << "F", "L" >> \in DOMAIN g.prop /\ g.prop[<< "F", "L" >>] # << "?" >> THEN EstimateFL(Quantity(g.prop[<< "F", "L" >>]))
  ELSE IF g.orig_level # NoLevel THEN EstimateRecoil(levels[g.orig_level], g, az_from_nucid(nucid))
  ELSE [kind |-> "return"]

\* What the first if/elif/else of _determine_dest_level does: "return" (no
\* matching), "estimate" (with dest), or the exception it raises
DestEstimate(levels, g, nucid) ==
  IF << "F", "L" >> \in DOMAIN g.prop
  THEN IF g.prop[<< "F", "L" >>] = << "?" >> THEN [kind |-> "return"]
       ELSE EstimateFL(Quantity(g.prop[<< "F", "L" >>]))
  ELSE IF g.orig_level # NoLevel THEN EstimateRecoil(levels[g.orig_level], g, az_from_nucid(nucid))
  ELSE [kind |-> "return"]

\* Mutant of LinkDest: the Gamma is not appended to the populating list
LinkDest_NoAppend(levels, g, d, me) == [levels |-> levels, rec |-> [g EXCEPT !.dest_level = d], exc |-> "none"]

\* self.dest_level = d; self.dest_level.populating.append(self)
LinkDest(levels, g, d, me) ==
  [levels |-> [levels EXCEPT ![d].populating = Append(@, me)], rec |-> [g EXCEPT !.dest_level = d], exc |-> "none"]

\* Lines 439-445, with the estimate e and the candidates known
MatchDest(levels, g, e, cands, me) ==
  IF e.kind = "return" THEN [levels |-> levels, rec |-> g, exc |-> "none"]
  ELSE IF e.kind # "estimate" THEN [levels |-> levels, rec |-> g, exc |-> e.kind]
  \* min() of an empty list raises ValueError, which is caught
  ELSE IF cands = {} THEN [levels |-> levels, rec |-> [g EXCEPT !.dest_energy = e.dest], exc |-> "none"]
  ELSE IF e.none \/ \E i \in cands : levels[i].energy.val = NoneVal THEN [levels |-> levels, rec |-> g, exc |-> "TypeError"]
  ELSE LinkDest(levels, [g EXCEPT !.dest_energy = e.dest], NearestLevel(levels, cands, e.dest), me)

\* _determine_dest_level of the gamma g that will be self.records[me]:
\* the levels and the gamma after it, and the exception raised
determine_dest_level(levels, g, nucid, me) ==
  MatchDest(levels, g, DestEstimate(levels, g, nucid), Candidates(levels, g), me)

\* The keys k of prop with k[0:2] == "BE" or k[0:2] == "BM"
AttrKeys(prop) == { k \in DOMAIN prop : Slice(k, 0, 2) \in { << "B", "E" >>, << "B", "M" >> } }

\* The Quantity objects built from prop besides energy, and self.attr
GammaQuantities(prop) ==
  { Quantity(prop[k]) : k \in { << "R", "I" >>, << "M", "R" >>, << "C", "C" >>, << "T", "I" >> } \cup AttrKeys(prop) }

\* Mutant of add_decay: nothing is appended
add_decay_Nothing(levels, orig_level, me) == levels

\* self.orig_level.add_decay(self)
add_decay(levels, orig_level, me) == [levels EXCEPT ![orig_level].decays = Append(@, me)]

\* Lines 409-423
GammaObject(levels, nucid, rec, energy, orig_level, me) ==
  IF ~energy.ok \/ (\E q \in GammaQuantities(rec.prop) : ~q.ok) THEN [levels |-> levels, rec |-> rec, exc |-> "ValueError"]
  ELSE determine_dest_level(levels,
         [type |-> "Gamma", prop |-> rec.prop, comments |-> rec.comments, xref |-> rec.xref,
          dest_level |-> NoLevel, orig_level |-> orig_level, energy |-> energy,
          multipolarity |-> rec.prop[<< "M" >>],
          questionable |-> (rec.prop[<< "Q" >>] = << "?" >>), expected |-> (rec.prop[<< "Q" >>] = << "S" >>),
          dest_energy |-> NoEstimate],
         nucid, me)

GammaLoaded(levels, nucid, r, orig_level, me) ==
  IF r.exc # "none" THEN [levels |-> levels, rec |-> r.rec, exc |-> r.exc]
  ELSE GammaObject(levels, nucid, r.rec, Quantity(r.rec.prop[<< "E" >>]), orig_level, me)

\* GammaRecord(dataset, record, comments, xref, orig_level), to become
\* self.records[me]: the levels and the gamma after the constructor
GammaRecord(levels, nucid, record, comments, xref, orig_level, me) ==
  GammaLoaded(IF orig_level # NoLevel THEN add_decay(levels, orig_level, me) ELSE levels,
              nucid, LoadRecord(record, comments, xref, EmptyDict, GammaFields), orig_level, me)

(***************************************************************************)
(* The header records                                                      *)
(***************************************************************************)
\* CrossReferenceRecord(dataset, line)
CrossReferenceRecord(line) == [dssym |-> At(line, 8), dsid |-> Strip(Slice(line, 9, 39))]

\* ParentRecord(dataset, line): the constructor indexes the str line as if it
\* were a list of lines, so record[0] is its first character, every field
\* record[0][a:b] is empty and load_prop sees one-character lines
ParentFields == << << << "E" >>, 9, 19 >>, << << "D", "E" >>, 19, 21 >>, << << "J" >>, 21, 39 >>, << << "T" >>, 39, 49 >>,
                   << << "D", "T" >>, 49, 55 >>, << << "Q", "P" >>, 64, 74 >>, << << "D", "Q", "P" >>, 74, 76 >>,
                   << << "I", "O", "N" >>, 76, 80 >> >>

CharsAsLines(line) == [i \in 1..Len(line) |-> << line[i] >>]

ParentRecord(line) == [prop |-> load_prop(FixedProps(EmptyDict, << line[1] >>, ParentFields), Tail(CharsAsLines(line))).prop]

\* ReferenceRecord(dataset, line)
ReferenceRecord(line) ==
  [prop |-> DictSet(DictSet(DictSet(EmptyDict, << "M", "A", "S", "S" >>, Strip(Slice(line, 0, 3))),
                            << "K", "E", "Y", "N", "U", "M" >>, Strip(Slice(line, 9, 17))),
                    << "R", "E", "F", "E", "R", "E", "N", "C", "E" >>, Strip(Slice(line, 17, 80)))]

\* QValueRecord(dataset, line)
QValueRecord(line) ==
  [q_beta_minus |-> << Strip(Slice(line, 9, 19)), Strip(Slice(line, 19, 21)) >>,
   neutron_separation |-> << Strip(Slice(line, 21, 29)), Strip(Slice(line, 29, 31)) >>,
   proton_separation |-> << Strip(Slice(line, 31, 39)), Strip(Slice(line, 39, 41)) >>,
   alpha_decay |-> << Strip(Slice(line, 41, 49)), Strip(Slice(line, 49, 55)) >>,
   q_ref |-> Strip(Slice(line, 55, 80))]

(***************************************************************************)
(* Dataset: get_record_type, _add_record, _add_level                       *)
(***************************************************************************)
\* get_record_type(record): the class returned, "NotImplementedError" when it raises
get_record_type(record) ==
  LET c7 == At(record[1], 7)
  IN IF c7 = "X" THEN "CrossReferenceRecord"
     ELSE IF c7 = "Q" THEN "QValueRecord"
     ELSE IF c7 = "L" THEN "LevelRecord"
     ELSE IF c7 = "B" THEN "BetaRecord"
     ELSE IF c7 = "E" THEN "ECRecord"
     ELSE IF c7 = "A" THEN "AlphaRecord"
     ELSE IF c7 = "G" THEN "GammaRecord"
     ELSE IF c7 \in {" ", "D"} /\ At(record[1], 8) \in {"P", "A", "N"} THEN "ParticleRecord"
     ELSE "NotImplementedError"

\* rec = rec_type(...) returned or raised; self.records.append(rec)
Appended(slf, r) ==
  IF r.exc # "none" THEN [slf |-> slf, exc |-> r.exc]
  ELSE [slf |-> [slf EXCEPT !.records = Append(@, r.rec)], exc |-> "none"]

\* The same for a Gamma, whose constructor changes levels too
AppendedGamma(slf, g) ==
  IF g.exc # "none" THEN [slf |-> [slf EXCEPT !.levels = g.levels], exc |-> g.exc]
  ELSE [slf |-> [slf EXCEPT !.levels = g.levels, !.records = Append(@, g.rec)], exc |-> "none"]

\* rec = rec_type(self, record, comments, xref, level)
Construct(slf, rec_type, record, comments, xref, level) ==
  IF rec_type = "NotImplementedError" THEN [slf |-> slf, exc |-> "NotImplementedError"]
  \* CrossReferenceRecord and QValueRecord take (dataset, line), LevelRecord
  \* four arguments: called with five
  ELSE IF rec_type \in {"CrossReferenceRecord", "QValueRecord", "LevelRecord"} THEN [slf |-> slf, exc |-> "TypeError"]
  ELSE IF rec_type = "GammaRecord"
  THEN AppendedGamma(slf, GammaRecord(slf.levels, slf.nucid, record, comments, xref, level, Len(slf.records) + 1))
  ELSE IF rec_type = "BetaRecord" THEN Appended(slf, BetaRecord(record, comments, xref, level))
  ELSE IF rec_type = "ECRecord" THEN Appended(slf, PlainDecayRecord("EC", ECFields, record, comments, xref, level))
  ELSE IF rec_type = "AlphaRecord" THEN Appended(slf, PlainDecayRecord("Alpha", AlphaFields, record, comments, xref, level))
  ELSE Appended(slf, ParticleRecord(record, comments, xref, level))

\* self._add_record(record, comments, xref, level): the Dataset after it and
\* the exception that left it
add_record(slf, record, comments, xref, level) == Construct(slf, get_record_type(record), record, comments, xref, level)

AppendedLevel(slf, r) ==
  IF r.exc # "none" THEN [slf |-> slf, lvl |-> NoLevel, exc |-> r.exc]
  ELSE [slf |-> [slf EXCEPT !.levels = Append(@, r.rec)], lvl |-> Len(slf.levels) + 1, exc |-> "none"]

\* self._add_level(record, comments, xref): the Dataset after it, the Level
\* returned (its position in self.levels) and the exception that left it
add_level(slf, record, comments, xref) == AppendedLevel(slf, LevelRecord(record, comments, xref))

(***************************************************************************)
(* Dataset._parse_dataset                                                  *)
(***************************************************************************)
VARIABLES
  input,  \* the family of inputs the dataset text is drawn from
  raw,    \* self.raw, as far as the text has been read
  pc,     \* "loop": in the for loop; "done": Dataset() returned; "failed": it raised
  exc,    \* the exception that left Dataset(), and where it was raised
  self,   \* the Dataset object
  loc     \* the local variables of _parse_dataset

vars == << input, raw, pc, exc, self, loc >>

NoExc == [type |-> "none", stage |-> "none", line |-> << >>]

\* The test below indexes the line past its end (line[7], and line[8] when it is read)
OpeningShort(line) ==
  Short(line, 7) \/ (Lower(At(line, 7)) \notin {"b", "a", "g", "e", "l"} /\ At(line, 7) \in {" ", "D"} /\ Short(line, 8))

\* Mutant of BodyOpening: the record letter is read at column 9
BodyOpening_Column9(line) ==
  \/ Lower(At(line, 9)) \in {"b", "a", "g", "e", "l"}
  \/ At(line, 7) \in {" ", "D"} /\ At(line, 8) \in {"P", "A", "N"}

\* line[7].lower() in "bagel" or (line[7] in " D" and line[8] in "PAN")
BodyOpening(line) ==
  \/ Lower(At(line, 7)) \in {"b", "a", "g", "e", "l"}
  \/ At(line, 7) \in {" ", "D"} /\ At(line, 8) \in {"P", "A", "N"}

\* The branch of the header-state if/elif chain (lines 112-129) the line takes
HeaderBranch(line) ==
  IF Short(line, 6) THEN "IndexError"
  ELSE IF Upper(At(line, 6)) \in {"C", "D", "T"} THEN "comment"
  ELSE IF OpeningShort(line) THEN "IndexError"
  ELSE IF BodyOpening(line) THEN "body"
  ELSE IF At(line, 7) = "X" THEN "X"
  ELSE IF At(line, 7) = "P" THEN "P"
  ELSE IF At(line, 7) = "R" THEN "R"
  ELSE IF Upper(At(line, 7)) = "Q" THEN "Q"
  ELSE IF Upper(At(line, 7)) = "H" THEN "H"
  ELSE IF Upper(At(line, 7)) = "N" THEN "N"
  ELSE "none"

\* The branch of the body-state if/elif chain (lines 134-156) the line takes
BodyBranch(line) ==
  IF OpeningShort(line) THEN "IndexError"
  ELSE IF BodyOpening(line) /\ Slice(line, 5, 7) = << " ", " " >> THEN "start"
  ELSE IF Slice(line, 5, 7) = << "X", " " >> THEN "xref"
  ELSE IF At(line, 6) = " " THEN "cont"
  ELSE IF LowerStr(Slice(line, 5, 7)) \in { << " ", "c" >>, << " ", "d" >>, << " ", "t" >> } THEN "comment_start"
  ELSE IF Lower(At(line, 6)) \in {"c", "d", "t"} THEN "comment_cont"
  ELSE "broken"

\* A state st of the parse: the Dataset slf, the locals loc, the exception exc.
\* Lines 111-129: the line takes the branch b of the header state
HeaderTake(st, line, b) ==
  IF b = "IndexError" THEN [st EXCEPT !.exc = [type |-> "IndexError", stage |-> "header", line |-> line]]
  ELSE IF b = "comment" THEN [st EXCEPT !.slf.comments = Append(@, line)]
  ELSE IF b = "body" THEN [st EXCEPT !.loc.header = FALSE]
  ELSE IF b = "X" THEN [st EXCEPT !.slf.cross_references = Append(@, CrossReferenceRecord(line))]
  ELSE IF b = "P" THEN [st EXCEPT !.slf.parents = Append(@, ParentRecord(line))]
  ELSE IF b = "R" THEN [st EXCEPT !.slf.references = Append(@, ReferenceRecord(line))]
  ELSE IF b = "Q" THEN [st EXCEPT !.slf.qrecords = Append(@, QValueRecord(line))]
  ELSE IF b = "H" THEN [st EXCEPT !.loc.history = @ \o Slice(line, 9, 80) \o << " " >>]
  ELSE st

HeaderStep(st, line) == HeaderTake(st, line, HeaderBranch(line))

\* Mutant of ClosedLevel: the Level built does not become the current level
ClosedLevel_KeepContext(st, r, stage) ==
  IF r.exc # "none" THEN [st EXCEPT !.slf = r.slf, !.exc = [type |-> r.exc, stage |-> stage, line |-> st.loc.record[1]]]
  ELSE [st EXCEPT !.slf = r.slf]

\* level = self._add_level(...) returned or raised
ClosedLevel(st, r, stage) ==
  IF r.exc # "none" THEN [st EXCEPT !.slf = r.slf, !.exc = [type |-> r.exc, stage |-> stage, line |-> st.loc.record[1]]]
  ELSE [st EXCEPT !.slf = r.slf, !.loc.level = r.lvl]

\* self._add_record(...) returned or raised
ClosedRecord(st, r, stage) ==
  IF r.exc # "none" THEN [st EXCEPT !.slf = r.slf, !.exc = [type |-> r.exc, stage |-> stage, line |-> st.loc.record[1]]]
  ELSE [st EXCEPT !.slf = r.slf]

\* Lines 137-141 and 172-176: close the pending record, if any
CloseRecord(st, stage) ==
  IF st.loc.record = << >> THEN st
  ELSE IF At(st.loc.record[1], 7) = "L"
  THEN ClosedLevel(st, add_level(st.slf, st.loc.record, st.loc.comments, st.loc.xref), stage)
  ELSE ClosedRecord(st, add_record(st.slf, st.loc.record, st.loc.comments, st.loc.xref, st.loc.level), stage)

\* Mutant of StartRecord: the cross-reference accumulator is not reset
StartRecord_KeepXref(c, line) ==
  IF c.exc.type # "none" THEN c
  ELSE [c EXCEPT !.loc.comments = << >>, !.loc.record = << line >>]

\* Lines 142-145, reached when closing did not raise
StartRecord(c, line) ==
  IF c.exc.type # "none" THEN c
  ELSE [c EXCEPT !.loc.comments = << >>, !.loc.record = << line >>, !.loc.xref = << >>]

\* Lines 133-159: the line takes the branch b of the body state
BodyTake(st, line, b) ==
  IF b = "IndexError" THEN [st EXCEPT !.exc = [type |-> "IndexError", stage |-> "classify", line |-> line]]
  ELSE IF b = "start" THEN StartRecord(CloseRecord(st, "close"), line)
  ELSE IF b = "xref" THEN [st EXCEPT !.loc.xref = Append(@, line)]
  ELSE IF b = "cont" THEN [st EXCEPT !.loc.record = Append(@, line)]
  ELSE IF b = "comment_start" THEN [st EXCEPT !.loc.comments = Append(@, << line >>)]
  ELSE IF b = "comment_cont"
  THEN IF st.loc.comments = << >>
       \* comments[-1] of an empty list
       THEN [st EXCEPT !.exc = [type |-> "IndexError", stage |-> "classify", line |-> line]]
       ELSE [st EXCEPT !.loc.comments[Len(st.loc.comments)] = Append(@, line)]
  ELSE [st EXCEPT !.loc.record = Append(@, line)]

BodyStep(st, line) == BodyTake(st, line, BodyBranch(line))

\* Mutant of AfterHeader: the loop always continues after the header rules
AfterHeader_Continue(h, line) == h

\* Lines 130-131: continue while in header state, else go on to the body rules
AfterHeader(h, line) == IF h.exc.type # "none" \/ h.loc.header THEN h ELSE BodyStep(h, line)

\* Mutant of LoopBody: the header rules are applied whatever the parser state
LoopBody_AlwaysHeader(st, line) == AfterHeader(HeaderStep(st, line), line)

\* Lines 111-159: the body of the for loop on one line
LoopBody(st, line) == IF st.loc.header THEN AfterHeader(HeaderStep(st, line), line) ELSE BodyStep(st, line)

\* history.split("$")[:-1]: the segments the loop of line 181 runs on
AllButLast(parts) == SubSeq(parts, 1, Len(parts) - 1)

HistoryEntries(history) == AllButLast(Split(history, "$"))

\* k, v = entry.split("=", maxsplit=1): ValueError, passed over, without "="
StoreHistory(hist, kv) == IF Len(kv) # 2 THEN hist ELSE DictSet(hist, Strip(kv[1]), Strip(kv[2]))

\* Lines 181-187: self.history after the loop over the entries
RECURSIVE ParseHistory(_, _)
ParseHistory(hist, entries) ==
  IF entries = << >> THEN hist
  ELSE ParseHistory(StoreHistory(hist, SplitMax(Head(entries), "=", 1)), Tail(entries))

HistoryParsed(c) ==
  IF c.exc.type # "none" THEN c
  ELSE [c EXCEPT !.slf.history = ParseHistory(@, HistoryEntries(c.loc.history))]

\* Lines 171-187: after the for loop
AfterLoop(st) == HistoryParsed(CloseRecord(st, "end"))

(***************************************************************************)
(* The inputs: card images of 80 columns                                   *)
(***************************************************************************)
Blanks(n) == [i \in 1..n |-> " "]

\* A card: columns 0-4 the nuclide id, columns 5-8 as given, the text from
\* column 9 on, blanks up to column 78 and q in column 79
PadCard(s, q) == s \o Blanks(LineWidth - 1 - Len(s)) \o << q >>

Card(c5to8, text, q) == PadCard(<< " ", "6", "0", "N", "I" >> \o c5to8 \o text, q)

\* The line after a final newline
EmptyLine == << >>

HeaderNi60 == Card(<< " ", " ", " ", " " >>, << "A", "D", "O", "P", "T", "E", "D", " ", "L", "E", "V", "E", "L", "S" >>, " ")

HeaderHe4 == << " ", " ", "4", "H", "E" >> \o SliceFrom(HeaderNi60, 5)

LevelCard(energy) == Card(<< " ", " ", "L", " " >>, energy, " ")

GammaCard(energy) == Card(<< " ", " ", "G", " " >>, energy, " ")

\* A continuation line of a record of the type t
ContCard(t, text) == Card(<< "2", " ", t, " " >>, text, " ")

L0 == LevelCard(<< "0" >>)

L500 == LevelCard(<< "5", "0", "0" >>)

L1000 == LevelCard(<< "1", "0", "0", "0" >>)

LX1332 == LevelCard(<< "1", "3", "3", "2", "+", "X" >>)

G500 == GammaCard(<< "5", "0", "0" >>)

G1000 == GammaCard(<< "1", "0", "0", "0" >>)

\* FL=?
GFLq == ContCard("G", << "F", "L", "=", "?" >>)

\* FL=1332+X
GFLX == ContCard("G", << "F", "L", "=", "1", "3", "3", "2", "+", "X" >>)

\* BE2W AP 5
PAbbr == ContCard("L", << "B", "E", "2", "W", " ", "A", "P", " ", "5" >>)

\* FOO
PFoo == ContCard("L", << "F", "O", "O" >>)

\* BE2<5$FOO
PRelFoo == ContCard("L", << "B", "E", "2", "<", "5", "$", "F", "O", "O" >>)

\* J=2+$MS=M1
PEq == ContCard("L", << "J", "=", "2", "+", "$", "M", "S", "=", "M", "1" >>)

\* Q=?
PQ == ContCard("L", << "Q", "=", "?" >>)

\* Record starts of the decay records: Beta, EC, Alpha, a prompt proton, and
\* a Level card with its letter in lower case
BetaCard == Card(<< " ", " ", "B", " " >>, << "3", "1", "8" >>, " ")

ECCard == Card(<< " ", " ", "E", " " >>, << "5", "1", "1" >>, " ")

AlphaCard == Card(<< " ", " ", "A", " " >>, << "5", "3", "0", "4" >>, " ")

ProtonCard == Card(<< " ", " ", " ", "P" >>, << "1", "2", "0", "0" >>, " ")

LowerLevelCard == Card(<< " ", " ", "l", " " >>, << "0" >>, " ")

\* History lines: TYP=B+$MOM=GS$ and TYP=B+$K=V
H1 == Card(<< " ", " ", "H", " " >>, << "T", "Y", "P", "=", "B", "+", "$", "M", "O", "M", "=", "G", "S", "$" >>, " ")

H2 == Card(<< " ", " ", "H", " " >>, << "T", "Y", "P", "=", "B", "+", "$", "K", "=", "V" >>, " ")

HX == Card(<< " ", " ", "X", "A" >>, << "6", "0", "C", "O", " ", "B", "-" >>, " ")

HQ == Card(<< " ", " ", "Q", " " >>, << "2", "8", "2", "3" >>, " ")

\* Body lines: a comment-block start, a comment-block continuation, a
\* cross-reference line, a line with a flag in column 6 that is none of c, d, t
CS == Card(<< " ", "c", "L", " " >>, << "T", "E", "X", "T" >>, " ")

CC == Card(<< "2", "c", "L", " " >>, << "M", "O", "R", "E" >>, " ")

XR == Card(<< "X", " ", "L", " " >>, << "A", "B" >>, " ")

BR == Card(<< " ", "P", "L", " " >>, << "J", "=", "1" >>, " ")

Families == {"gamma", "offset", "prop", "history", "body", "decay", "letter"}

\* The lines the text of a family is made of
Cards(f) ==
  IF f = "gamma" THEN {L0, L1000, G1000, GFLq, EmptyLine}
  ELSE IF f = "offset" THEN {LX1332, L500, G500, GFLX, EmptyLine}
  ELSE IF f = "prop" THEN {L0, PAbbr, PFoo, PRelFoo, PEq, PQ, EmptyLine}
  ELSE IF f = "history" THEN {H1, H2, HX, HQ, L0, EmptyLine}
  ELSE IF f = "body" THEN {L0, L1000, CS, CC, XR, BR, EmptyLine}
  ELSE IF f = "decay" THEN {L0, BetaCard, ProtonCard, G1000, EmptyLine}
  ELSE {L0, LowerLevelCard, ECCard, AlphaCard, EmptyLine}

\* The first line of the text
Headers(f) == IF f = "gamma" THEN {HeaderNi60, HeaderHe4} ELSE {HeaderNi60}

(***************************************************************************)
(* Dataset.__init__ and the parse, one line of self.raw[:-1] at a time     *)
(***************************************************************************)
\* Dataset.__init__ up to the call of _parse_dataset, and the locals at the
\* head of _parse_dataset
NewDataset(header) ==
  [header |-> header, nucid |-> Strip(Slice(header, 0, 5)), records |-> << >>, levels |-> << >>, history |-> EmptyDict,
   qrecords |-> << >>, comments |-> << >>, parents |-> << >>, references |-> << >>, cross_references |-> << >>]

NewLocals == [comments |-> << >>, record |-> << >>, xref |-> << >>, level |-> NoLevel, history |-> << >>, header |-> TRUE]

Init ==
  /\ input \in Families
  /\ raw = << >>
  /\ pc = "loop"
  /\ exc = NoExc
  /\ \E h \in Headers(input) : self = NewDataset(h)
  /\ loc = NewLocals

\* The variables after a step that ends in st; pc is ok unless st holds an exception
Outcome(st, ok) ==
  /\ self' = st.slf
  /\ loc' = st.loc
  /\ exc' = st.exc
  /\ pc' = IF st.exc.type = "none" THEN ok ELSE "failed"

\* The text has one more line after raw[-1]: raw[-1] is therefore not the last
\* element of self.raw, and "for line in self.raw[:-1]" runs its body on it
Iterate(line) ==
  /\ pc = "loop"
  /\ Len(raw) < MaxLines
  /\ raw' = Append(raw, line)
  /\ IF raw = << >>
     THEN UNCHANGED << pc, exc, self, loc >>
     ELSE Outcome(LoopBody([slf |-> self, loc |-> loc, exc |-> exc], raw[Len(raw)]), "loop")
  /\ UNCHANGED input

\* The text ends: the last element of self.raw is never iterated; the pending
\* record is closed and the history buffer parsed
Finish ==
  /\ pc = "loop"
  /\ Outcome(AfterLoop([slf |-> self, loc |-> loc, exc |-> exc]), "done")
  /\ UNCHANGED << input, raw >>

Next ==
  \/ \E line \in Cards(input) : Iterate(line)
  \/ Finish

Spec == Init /\ [][Next]_vars

(***************************************************************************)
(* Properties                                                              *)
(***************************************************************************)
\* The positions of the Gamma records in self.records
Gammas == { k \in 1..Len(self.records) : self.records[k].type = "Gamma" }

InSeq(s, x) == \E i \in 1..Len(s) : s[i] = x

HasFL(g) == << "F", "L" >> \in DOMAIN g.prop

FLOf(g) == g.prop[<< "F", "L" >>]

\* The mass number of the dataset, read off the header line
MassOfHeader == IF self.header = HeaderHe4 THEN 4 ELSE 60

\* The parse returned a Dataset with one Level at energy 0 and one Gamma with
\* E = 1000 and no FL that originates from that Level
C1_Case ==
  /\ pc = "done"
  /\ Len(self.levels) = 1 /\ Len(self.records) = 1
  /\ self.levels[1].prop[<< "E" >>] = << "0" >>
  /\ self.records[1].type = "Gamma"
  /\ self.records[1].prop[<< "E" >>] = << "1", "0", "0", "0" >>
  /\ ~HasFL(self.records[1])
  /\ self.records[1].orig_level = 1

\* C1 as stated: in that dataset the Gamma's dest_level is None and the
\* Level's decays list holds exactly the Gamma
C1_DestAbsent == C1_Case => (self.records[1].dest_level = NoLevel /\ self.levels[1].decays = << 1 >>)

\* C1, amended: in that dataset the candidate set holds the originating Level
\* itself, so the Gamma's dest_level is that Level; the Level's decays list
\* holds exactly the Gamma, and so does its populating list
C1_DestIsOrigin ==
  C1_Case => (self.records[1].dest_level = 1 /\ self.levels[1].decays = << 1 >> /\ self.levels[1].populating = << 1 >>)

C1_Witness == C1_Case /\ self.records[1].dest_level = 1

\* self.records[k] is a Gamma with E = 1000 and no FL that follows Level B
\* (energy 1000), the second level after Level A (energy 0)
C2_Case(k) ==
  /\ k \in Gammas
  /\ Len(self.levels) >= 2
  /\ self.levels[1].prop[<< "E" >>] = << "0" >>
  /\ self.levels[2].prop[<< "E" >>] = << "1", "0", "0", "0" >>
  /\ self.records[k].prop[<< "E" >>] = << "1", "0", "0", "0" >>
  /\ ~HasFL(self.records[k])
  /\ self.records[k].orig_level = 2

\* C2: Level A at 0, Level B at 1000, a Gamma from B with E = 1000 and no FL:
\* dest_level is Level A, the Gamma is in A's populating list and in B's decays list
C2_NearestIsLevelA ==
  \A k \in 1..Len(self.records) :
    C2_Case(k) => /\ self.records[k].dest_level = 1
                  /\ InSeq(self.levels[1].populating, k)
                  /\ InSeq(self.levels[2].decays, k)

C2_Witness == pc = "done" /\ \E k \in 1..Len(self.records) : C2_Case(k) /\ self.records[k].dest_level = 1

\* The first lines are a Level card and its continuation line "BE2W AP 5", and
\* the Level has been built
C3_Case == Len(raw) >= 3 /\ raw[1] = L0 /\ raw[2] = PAbbr /\ Len(self.levels) >= 1

\* C3: the entry "BE2W AP 5" is stored under its first token: prop["BE2W"] = "5 AP"
C3_StoredUnderKey ==
  C3_Case => /\ << "B", "E", "2", "W" >> \in DOMAIN self.levels[1].prop
             /\ self.levels[1].prop[<< "B", "E", "2", "W" >>] = << "5", " ", "A", "P" >>

\* C4: a Gamma with an FL value (not "?") is matched only against levels whose
\* offset tag is the tag of the FL value
C4_GroupedByFLTag ==
  \A k \in Gammas :
    (HasFL(self.records[k]) /\ FLOf(self.records[k]) # << "?" >> /\ self.records[k].dest_level # NoLevel)
      => self.levels[self.records[k].dest_level].energy.offset = Quantity(FLOf(self.records[k])).offset

\* The levels a Gamma is matched against: those in self.levels when it is
\* built (the positions up to its originating level, the latest one) with the
\* offset tag of the Gamma's energy
SameOffsetLevels(g) == { i \in 1..g.orig_level : self.levels[i].energy.offset = g.energy.offset }

EstimateIsFL(g) == g.dest_energy = [whole |-> Quantity(FLOf(g)).val, rem |-> 0, den |-> 1]

\* An estimate was computed from the originating level and matched
MatchedFromOrigin(g) == g.dest_energy # NoEstimate /\ (g.dest_level # NoLevel <=> SameOffsetLevels(g) # {})

Unmatched(k) ==
  /\ self.records[k].dest_level = NoLevel
  /\ self.records[k].dest_energy = NoEstimate
  /\ \A i \in 1..Len(self.levels) : ~InSeq(self.levels[i].populating, k)

\* C5 as stated: (1) FL present and not "?": the estimate is the FL value;
\* (2) otherwise, FL == "?" included, with an originating level: the estimate
\* comes from the originating level and matching proceeds; (3) else no matching
C5_ThreeCases ==
  \A k \in Gammas :
    LET g == self.records[k]
    IN /\ (HasFL(g) /\ FLOf(g) # << "?" >>) => EstimateIsFL(g)
       /\ (~(HasFL(g) /\ FLOf(g) # << "?" >>) /\ g.orig_level # NoLevel) => MatchedFromOrigin(g)
       /\ (~(HasFL(g) /\ FLOf(g) # << "?" >>) /\ g.orig_level = NoLevel) => Unmatched(k)

\* C5, amended: (1) FL present and not "?": the estimate is the FL value;
\* (2) FL absent and an originating level known: the estimate comes from the
\* originating level and matching proceeds; (3) FL == "?", or FL absent and no
\* originating level: dest_level stays absent, without matching
C5_QuestionMarkStops ==
  \A k \in Gammas :
    LET g == self.records[k]
    IN /\ (HasFL(g) /\ FLOf(g) # << "?" >>) => EstimateIsFL(g)
       /\ (~HasFL(g) /\ g.orig_level # NoLevel) => MatchedFromOrigin(g)
       /\ ((HasFL(g) /\ FLOf(g) = << "?" >>) \/ (~HasFL(g) /\ g.orig_level = NoLevel)) => Unmatched(k)

C5_Witness ==
  \E k \in Gammas : HasFL(self.records[k]) /\ FLOf(self.records[k]) = << "?" >> /\ self.records[k].orig_level # NoLevel
                      /\ SameOffsetLevels(self.records[k]) # {}

\* The Gammas whose estimate comes from the originating level
RecoilGammas == { k \in Gammas : ~HasFL(self.records[k]) /\ self.records[k].orig_level # NoLevel }

\* (E_orig - Eg - estimate) * A * amu, for the estimate of the gamma g
RecoilTimesMass(g) ==
  (self.levels[g.orig_level].energy.val - g.energy.val - g.dest_energy.whole) * g.dest_energy.den + g.dest_energy.rem

\* C6 as stated: the estimate is E_orig - Eg * (1 + 0.001 * Eg / (A * amu)):
\* the recoil term times A * amu (in keV) is Eg^2
C6_RecoilTermPlain ==
  \A k \in RecoilGammas :
    /\ self.records[k].dest_energy.den = MassOfHeader * AmuKeV
    /\ RecoilTimesMass(self.records[k]) = self.records[k].energy.val * self.records[k].energy.val

\* C6, amended: the estimate is E_orig - Eg * (1 + 2 * 0.001 * Eg / (A * amu)):
\* the recoil term times A * amu (in keV) is 2 * Eg^2
C6_RecoilTermDoubled ==
  \A k \in RecoilGammas :
    /\ self.records[k].dest_energy.den = MassOfHeader * AmuKeV
    /\ RecoilTimesMass(self.records[k]) = 2 * self.records[k].energy.val * self.records[k].energy.val

C6_Witness == \E k \in RecoilGammas : self.records[k].energy.val = 1000 /\ self.levels[self.records[k].orig_level].energy.val = 1000

\* The segments the history mapping is claimed to be built from: only a
\* trailing empty segment is discarded
KeptSegments(parts) == IF parts[Len(parts)] = << >> THEN AllButLast(parts) ELSE parts

\* C7: after a successful parse the history mapping holds the trimmed key and
\* value of every "$"-separated segment of the history buffer that contains "=",
\* a final segment not followed by "$" included
C7_EverySegmentStored == pc = "done" => self.history = ParseHistory(EmptyDict, KeptSegments(Split(loc.history, "$")))

\* C8: the body classifier rejects no line of full width
C8_NoFullLineRejected == exc.stage = "classify" => Len(exc.line) < LineWidth

\* An entry that none of the rules of load_prop accepts
MalformedEntry(entry) ==
  entry # << >> /\ ~Has(entry, "=") /\ RelSymb(entry) = "None" /\ ~HasAbbr(entry) /\ entry[Len(entry)] # "?"

AnyMalformed(entries) == \E i \in 1..Len(entries) : MalformedEntry(Strip(entries[i]))

\* The pending record has a continuation line with a malformed entry
PendingMalformed ==
  pc = "loop" /\ \E i \in 2..Len(loc.record) : AnyMalformed(Split(SliceFrom(loc.record[i], 9), "$"))

\* C9: a record with a malformed entry on a continuation line is never built,
\* and Dataset() never returns once such a record is pending
C9_MalformedAborts ==
  [][PendingMalformed => (Len(self'.levels) = Len(self.levels) /\ Len(self'.records) = Len(self.records) /\ pc' # "done")]_vars

\* The line with columns 0-8 of l1 and columns 9-79 of l2
SwapTail(l1, l2) == Slice(l1, 0, 9) \o SliceFrom(l2, 9)

FullCards == { l \in Cards(input) : Len(l) = LineWidth }

\* Two states after one line agree on the parser state, on the exception, and
\* on how many lines each accumulator and each list of the Dataset holds
SameEffect(s1, s2) ==
  /\ s1.loc.header = s2.loc.header
  /\ s1.exc.type = s2.exc.type /\ s1.exc.stage = s2.exc.stage
  /\ Len(s1.loc.record) = Len(s2.loc.record)
  /\ Len(s1.loc.xref) = Len(s2.loc.xref)
  /\ [i \in 1..Len(s1.loc.comments) |-> Len(s1.loc.comments[i])] = [i \in 1..Len(s2.loc.comments) |-> Len(s2.loc.comments[i])]
  /\ Len(s1.loc.history) = Len(s2.loc.history)
  /\ Len(s1.slf.comments) = Len(s2.slf.comments)
  /\ Len(s1.slf.cross_references) = Len(s2.slf.cross_references)
  /\ Len(s1.slf.parents) = Len(s2.slf.parents)
  /\ Len(s1.slf.references) = Len(s2.slf.references)
  /\ Len(s1.slf.qrecords) = Len(s2.slf.qrecords)
  /\ Len(s1.slf.levels) = Len(s2.slf.levels)
  /\ Len(s1.slf.records) = Len(s2.slf.records)

SameClass(st, l1, l2) ==
  /\ HeaderBranch(l1) = HeaderBranch(l2)
  /\ BodyBranch(l1) = BodyBranch(l2)
  /\ SameEffect(LoopBody(st, l1), LoopBody(st, l2))

\* C10: in every parser state, the line read last and any line with the same
\* columns 0-8 and other columns 9-79 take the same branch of the header and
\* of the body rules, feed the same accumulator and make the same transition
C10_ColumnsAfter8Ignored ==
  (pc = "loop" /\ raw # << >> /\ Len(raw[Len(raw)]) = LineWidth)
    => \A l2 \in FullCards : SameClass([slf |-> self, loc |-> loc, exc |-> exc], raw[Len(raw)], SwapTail(raw[Len(raw)], l2))

C10_Witness ==
  /\ pc = "loop" /\ ~loc.header /\ loc.record # << >> /\ raw # << >>
  /\ BodyBranch(raw[Len(raw)]) = "start"
  /\ \E l2 \in FullCards : SliceFrom(l2, 9) # SliceFrom(raw[Len(raw)], 9)

\* A step appends a Level to self.levels: it closes the pending record loc.record
LevelAdded == Len(self'.levels) = Len(self.levels) + 1

NewLevel == self'.levels[Len(self'.levels)]

\* C11: the questionable and expected flags of every Level are never both true
\* and are fixed by column 79 of the record's first line alone (questionable
\* iff it is "?", expected iff it is "S"), whatever the continuation lines hold
C11_FlagsFromColumn79 ==
  [][LevelAdded => /\ ~(NewLevel.questionable /\ NewLevel.expected)
                   /\ NewLevel.questionable = (At(loc.record[1], 79) = "?")
                   /\ NewLevel.expected = (At(loc.record[1], 79) = "S")]_vars

\* C12: once the parser is in the body state it stays there, and no later line
\* appends to the comments, cross_references, parents, references or qrecords
\* of the Dataset or to the history buffer
C12_BodyIsTerminal ==
  [][~loc.header => /\ ~loc'.header
                    /\ self'.comments = self.comments
                    /\ self'.cross_references = self.cross_references
                    /\ self'.parents = self.parents
                    /\ self'.references = self.references
                    /\ self'.qrecords = self.qrecords
                    /\ loc'.history = loc.history]_vars

\* In the body state, a line with X, Q or H in column 7 has been read
C12_Witness == pc = "loop" /\ ~loc.header /\ Len(loc.record) >= 2 /\ loc.record[2] \in {HX, HQ, H1}

\* A step appends a record to self.records
RecordAdded == Len(self'.records) = Len(self.records) + 1

NewRecord == self'.records[Len(self'.records)]

\* The level context a decay record stores
ContextOf(r) == IF r.type = "Gamma" THEN r.orig_level ELSE r.dest_level

\* A step closes the pending record and no exception leaves it: the line read
\* is a record start, or the text ends
Closes ==
  /\ pc = "loop" /\ loc.record # << >> /\ pc' # "failed"
  /\ (pc' = "done" \/ BodyBranch(raw[Len(raw)]) = "start")

\* C13: the current level is the Level built last (absent if none); a closed
\* group with "L" in column 7 of its first line is appended to self.levels and
\* becomes the current level; any other closed group is appended to
\* self.records with the current level as orig_level (Gamma) or dest_level
\* (the others); the current level changes only when a Level is built
C13_LevelContext ==
  [][/\ loc.level = Len(self.levels)
     /\ Closes => IF At(loc.record[1], 7) = "L"
                  THEN LevelAdded /\ self'.records = self.records /\ loc'.level = Len(self'.levels)
                  ELSE /\ RecordAdded /\ Len(self'.levels) = Len(self.levels)
                       /\ ContextOf(NewRecord) = loc.level /\ loc'.level = loc.level
     /\ ~LevelAdded => loc'.level = loc.level]_vars

\* A Beta record closed after two Level records has the second as dest_level
C13_Witness ==
  /\ pc = "done" /\ Len(self.levels) = 2 /\ Len(self.records) = 1
  /\ self.records[1].type = "Beta" /\ self.records[1].dest_level = 2

\* The parse that runs the loop body on every line of lines, in order
RECURSIVE RunLines(_, _)
RunLines(st, lines) ==
  IF lines = << >> \/ st.exc.type # "none" THEN st ELSE RunLines(LoopBody(st, Head(lines)), Tail(lines))

EndOf(st) == IF st.exc.type # "none" THEN st ELSE AfterLoop(st)

ParseOf(header, lines) == EndOf(RunLines([slf |-> NewDataset(header), loc |-> NewLocals, exc |-> NoExc], lines))

\* The lines of the text after the header line without a trailing empty line
KeptLines(lines) == IF lines # << >> /\ lines[Len(lines)] = EmptyLine THEN AllButLast(lines) ELSE lines

SameResult(r) == r.exc.type = "none" /\ r.slf = self

\* C14: only a trailing empty line is discarded: the Dataset returned is the one
\* obtained by classifying every line of the text but a trailing empty one, a
\* non-empty last line included, and closing the pending record
C14_OnlyEmptyLineDropped == pc = "done" => SameResult(ParseOf(self.header, KeptLines(raw)))

\* How many times x occurs in the list s
CountIn(s, x) == Cardinality({ i \in 1..Len(s) : s[i] = x })

\* No level of the set cands is closer to the estimate of g than the level d
NoneCloser(g, cands, d) ==
  \A j \in cands : ~Closer(Distance(self.levels[j], g.dest_energy), Distance(self.levels[d], g.dest_energy))

\* The Gamma self.records[k] occurs once in the populating list of d, in no other
PopulatesOnly(k, d) == \A i \in 1..Len(self.levels) : CountIn(self.levels[i].populating, k) = IF i = d THEN 1 ELSE 0

MatchedNearest(k, g, cands) ==
  IF cands = {} THEN g.dest_level = NoLevel /\ PopulatesOnly(k, NoLevel)
  ELSE g.dest_level \in cands /\ NoneCloser(g, cands, g.dest_level) /\ PopulatesOnly(k, g.dest_level)

\* C15: a Gamma with a destination estimate has as dest_level a level nearest
\* to the estimate among the levels built before it that carry the offset tag
\* of the Gamma's energy, and is in the populating list of that level only; if
\* there is no such level dest_level is absent and the Gamma is in no
\* populating list; building a Gamma from its record-start card raises no error
C15_NearestSameOffset ==
  /\ \A k \in Gammas :
       self.records[k].dest_energy # NoEstimate => MatchedNearest(k, self.records[k], SameOffsetLevels(self.records[k]))
  /\ exc.type # "none" => exc.line \notin {G500, G1000}

\* A Gamma was matched against two levels or more
C15_Witness ==
  \E k \in Gammas : /\ self.records[k].dest_energy # NoEstimate
                     /\ Cardinality(SameOffsetLevels(self.records[k])) >= 2
                     /\ self.records[k].dest_level # NoLevel

\* C16: the step that takes the parser from header to body adds nothing to the
\* comments, cross_references, parents, references, qrecords of the Dataset
\* or to the history buffer, and when columns 5-6 of its line are blank that
\* line is the only line of the pending record after the step
C16_OpeningLineIsBodyLine ==
  [][(loc.header /\ ~loc'.header)
       => /\ self'.comments = self.comments
          /\ self'.cross_references = self.cross_references
          /\ self'.parents = self.parents
          /\ self'.references = self.references
          /\ self'.qrecords = self.qrecords
          /\ loc'.history = loc.history
          /\ pc' = "loop"
          /\ Slice(raw[Len(raw)], 5, 7) = << " ", " " >> => loc'.record = << raw[Len(raw)] >>]_vars

\* After a cross-reference line of the header, a Level card opened the body and
\* is the pending record
C16_Witness ==
  /\ pc = "loop" /\ ~loc.header /\ Len(raw) = 3 /\ raw[1] = HX /\ raw[2] = L0
  /\ Len(self.cross_references) = 1 /\ loc.record = << L0 >>

\* The position in lines of the line that opens the body (0 if none does)
FirstBody(lines) ==
  IF \E i \in 1..Len(lines) : HeaderBranch(lines[i]) = "body"
  THEN CHOOSE i \in 1..Len(lines) : HeaderBranch(lines[i]) = "body" /\ \A j \in 1..(i - 1) : HeaderBranch(lines[j]) # "body"
  ELSE 0

\* The position of the last record start at or after position b (b if there is none)
LastStart(lines, b) ==
  IF \E i \in b..Len(lines) : BodyBranch(lines[i]) = "start"
  THEN CHOOSE i \in b..Len(lines) : BodyBranch(lines[i]) = "start" /\ \A j \in (i + 1)..Len(lines) : BodyBranch(lines[j]) # "start"
  ELSE b

\* The body lines from the last record start on
SinceStart(lines) == SubSeq(lines, LastStart(lines, FirstBody(lines)), Len(lines))

IsRecordLine(line) == BodyBranch(line) \in {"start", "cont", "broken"}

IsXrefLine(line) == BodyBranch(line) = "xref"

IsCommentLine(line) == BodyBranch(line) \in {"comment_start", "comment_cont"}

RECURSIVE Flatten(_)
Flatten(blocks) == IF blocks = << >> THEN << >> ELSE Head(blocks) \o Flatten(Tail(blocks))

\* A comment block: a comment-block start line and its continuation lines
IsBlock(b) == b # << >> /\ BodyBranch(b[1]) = "comment_start" /\ \A j \in 2..Len(b) : BodyBranch(b[j]) = "comment_cont"

\* With the lines read so far, the accumulators l hold the lines since the
\* last record start, each in its accumulator and in order
AccumulatorsHold(lines, l) ==
  IF FirstBody(lines) = 0 THEN l.record = << >> /\ l.xref = << >> /\ l.comments = << >>
  ELSE /\ l.record = SelectSeq(SinceStart(lines), IsRecordLine)
       /\ l.xref = SelectSeq(SinceStart(lines), IsXrefLine)
       /\ Flatten(l.comments) = SelectSeq(SinceStart(lines), IsCommentLine)
       /\ \A i \in 1..Len(l.comments) : IsBlock(l.comments[i])

\* The object o is built from the accumulators l
BuiltFrom(o, l) ==
  /\ o.prop[<< "E" >>] = Strip(Slice(l.record[1], 9, 19))
  /\ o.xref = l.xref
  /\ o.comments = [i \in 1..Len(l.comments) |-> [comment |-> l.comments[i]]]

\* A step reads a record start in the body state and no exception leaves it
Starts == pc = "loop" /\ pc' = "loop" /\ raw' # raw /\ raw # << >> /\ ~loc'.header /\ BodyBranch(raw[Len(raw)]) = "start"

\* C17: a record start closes the pending record and then resets the
\* accumulators; between record starts the accumulators hold exactly the
\* continuation lines, comment blocks and cross-reference lines read since
\* the last record start, and a closed record is built from them
C17_RecordFromOwnLines ==
  [][/\ pc' = "loop" => AccumulatorsHold(AllButLast(raw'), loc')
     /\ Starts => loc'.record = << raw[Len(raw)] >> /\ loc'.comments = << >> /\ loc'.xref = << >>
     /\ Closes => BuiltFrom(IF LevelAdded THEN NewLevel ELSE NewRecord, loc)]_vars

\* Two records were closed: the first has the cross-reference line that
\* followed its start, the second has none
C17_Witness ==
  /\ pc = "done" /\ Len(self.levels) = 2
  /\ self.levels[1].xref = << XR >> /\ self.levels[2].xref = << >>

StripAll(parts) == [i \in 1..Len(parts) |-> Strip(parts[i])]

\* The stripped entries of the continuation lines, in the order of the text
RECURSIVE AllEntries(_)
AllEntries(lines) ==
  IF lines = << >> THEN << >> ELSE StripAll(Split(SliceFrom(Head(lines), 9), "$")) \o AllEntries(Tail(lines))

\* An entry that is not empty and has no "=": one for the relational-symbol,
\* abbreviation-code or trailing-"?" rule
Stops(entry) == entry # << >> /\ ~Has(entry, "=")

\* The position of the first such entry (past the end if there is none)
FirstStop(entries) ==
  IF \E i \in 1..Len(entries) : Stops(entries[i])
  THEN CHOOSE i \in 1..Len(entries) : Stops(entries[i]) /\ \A j \in 1..(i - 1) : ~Stops(entries[j])
  ELSE Len(entries) + 1

\* prop with every "=" entry of entries stored
RECURSIVE StoreAll(_, _)
StoreAll(prop, entries) ==
  IF entries = << >> THEN prop
  ELSE IF Head(entries) = << >> THEN StoreAll(prop, Tail(entries))
  ELSE StoreAll(DictSet(prop, Strip(SplitMax(Head(entries), "=", 1)[1]), Strip(SplitMax(Head(entries), "=", 1)[2])), Tail(entries))

\* The "=" entries before the first other entry are stored, then that entry, and
\* nothing after it
ExpectedProp(prop, entries, stop) ==
  IF stop > Len(entries) THEN StoreAll(prop, entries)
  ELSE LoadStripped(StoreAll(prop, SubSeq(entries, 1, stop - 1)), entries[stop]).prop

\* C18: the prop of a Level that is built holds the fixed fields, every "="
\* entry of its continuation lines up to the first entry taken by the
\* relational-symbol, abbreviation-code or trailing-"?" rule, that entry, and
\* no entry after it, on the same line or on a later line
C18_StopAfterQualifiedEntry ==
  [][(Closes /\ LevelAdded)
       => NewLevel.prop = ExpectedProp(FixedProps(EmptyDict, loc.record[1], LevelFields),
                                       AllEntries(Tail(loc.record)), FirstStop(AllEntries(Tail(loc.record))))]_vars

\* A Level with the continuation lines "BE2<5$FOO" and "J=2+$MS=M1" was built:
\* BE2 is stored, J is the fixed field
C18_Witness ==
  /\ Len(raw) = 4 /\ raw[1] = L0 /\ raw[2] = PRelFoo /\ raw[3] = PEq
  /\ Len(self.levels) = 1
  /\ self.levels[1].prop[<< "B", "E", "2" >>] = << "<", "5" >>
  /\ self.levels[1].prop[<< "J" >>] = << >>

\* C19: closing a group opened by a line that the body classifier takes as a
\* record start never fails with the unknown-record-type error
C19_StartAlwaysBuilds == exc.type = "NotImplementedError" => BodyBranch(exc.line) # "start"

\* The lists of the Level lvl, self.levels[i], agree with the links of the records
LinksAgree(i, lvl) ==
  /\ \A j \in 1..Len(lvl.decays) : lvl.decays[j] \in Gammas
  /\ \A j \in 1..Len(lvl.populating) : lvl.populating[j] \in Gammas
  /\ \A k \in 1..Len(self.records) :
       /\ CountIn(lvl.decays, k) = IF k \in Gammas /\ self.records[k].orig_level = i THEN 1 ELSE 0
       /\ CountIn(lvl.populating, k) = IF k \in Gammas /\ self.records[k].dest_level = i THEN 1 ELSE 0

\* C20: while no exception has left the parse, a Gamma is in the decays list of
\* a Level exactly once iff that Level is its orig_level and in the populating
\* list exactly once iff that Level is its dest_level; no other record is in
\* a decays or populating list
C20_GraphConsistent == exc.type = "none" => \A i \in 1..Len(self.levels) : LinksAgree(i, self.levels[i])

\* A Level, a Beta and a Gamma were built: the Beta has the Level as
\* dest_level, and only the Gamma is in the lists of the Level
C20_Witness ==
  /\ pc = "done" /\ Len(self.levels) = 1 /\ Len(self.records) = 2
  /\ self.records[1].type = "Beta" /\ self.records[1].dest_level = 1
  /\ self.records[2].type = "Gamma" /\ self.records[2].orig_level = 1
  /\ self.levels[1].decays = << 2 >> /\ self.levels[1].populating = << 2 >>

====
